---- MODULE Spec2Model ----
(***************************************************************************)
(* Harvest Insights Dashboard: the synthetic farm dataset generator        *)
(* (data.py, index.py load_simulated_data), the filter page (app.py) and   *)
(* the USDA NASS loader and page (index.py).                               *)
(*                                                                         *)
(* Numbers are fixed point: a column rounded to 2 decimals is held in      *)
(* hundredths, a column rounded to 1 decimal in tenths.  The source fixes  *)
(* n = 200 and seed 42; here the record count and the seed are parameters  *)
(* of the run, chosen once, so that statements over all n and seeds can be *)
(* checked.  numpy's generator is modelled as a small additive             *)
(* congruential generator: a state, a seeding function, a step function.   *)
(***************************************************************************)
EXTENDS Integers, Sequences, FiniteSets, TLC

\* ---------------------------------------------------------------- bounds
MaxN == 2          \* largest record count explored (the source uses 200)
RngMod == 8        \* number of states of the modelled generator
MaxSpan == 1       \* the year slider spans SliderMin..SliderMin+MaxSpan

Seeds == {42, 7, 13}
\* an absent value is the empty tuple, a present one a 1-tuple
None == <<>>
Some(x) == <<x>>
Get(o) == o[1]

VARIABLES
    n,              \* record count of this run (index.py:12, data.py:8)
    seed,           \* seed passed to np.random.seed (index.py:11, data.py:5)
    tieUp,          \* how the build's float rounding resolves an exact tie
    rng,            \* state of the shared numpy generator of the server
    csvFile,        \* harvest_insights_data.csv, None until data.py wrote it
    simCache,       \* st.cache_data entry of load_simulated_data
    firstGen,       \* history: result of the first run of the generator body
    lastGen,        \* history: result of the latest run of the generator body
    preLast,        \* history: shared generator's state on entry to the latest loader run
    variedEntry,    \* history: two loader runs were entered in different generator states
    script,         \* which page script ran last
    status,         \* where that script is / how it ended
    loaded,         \* the dataset as the page script loaded it
    data,           \* the page's variable `data`
    filtered_data,  \* app.py's variable `filtered_data`
    selected_crops, \* app.py multiselect
    selected_pest,  \* app.py selectbox
    secrets,        \* .streamlit/secrets.toml: the NASS_API_KEY entry, if any
    nassCache,      \* st.cache_data entry of load_nass_data: its arguments and frame
    key,            \* index.py's variable `key`
    year_range,     \* slider value <<yr1, yr2>>
    yr,             \* loop variable of load_nass_data
    rows,           \* accumulator of load_nass_data
    resp,           \* history: outcome of the request of each year
    httpLog,        \* history: years requested in this page run
    errorShown,     \* st.error was called in this page run
    rec,            \* a single record's base fields (formula check)
    pred            \* the predicted yield computed for rec

genVars == <<n, seed, tieUp, rng, csvFile, simCache, firstGen, lastGen, preLast, variedEntry>>
pageVars == <<script, status, loaded, data, filtered_data, selected_crops, selected_pest>>
nassVars == <<secrets, nassCache, key, year_range, yr, rows, resp, httpLog, errorShown>>
recVars == <<rec, pred>>
vars == <<genVars, pageVars, nassVars, recVars>>

\* ------------------------------------------------------------ arithmetic
Abs(x) == IF x < 0 THEN 0 - x ELSE x

\* num/den rounded to the nearest integer; an exact tie goes up when the
\* build's rounding says so for the parity of the lower neighbour.
Round(num, den, tu) ==
    LET q == num \div den
        r == num % den
    IN  IF 2 * r < den THEN q
        ELSE IF 2 * r > den THEN q + 1
        ELSE IF tu[q % 2] THEN q + 1 ELSE q

\* ------------------------------------------------------- random generator
SeedRng(s) == s % RngMod

\* one draw advances the state
NextRng(r) == (r + 5) % RngMod

RECURSIVE Stream(_, _)
\* state of the generator after k draws from state r
Stream(r, k) == IF k = 0 THEN r ELSE Stream(NextRng(r), k - 1)

Crops == <<"Wheat", "Maize", "Rice", "Soybean">>

\* np.random.choice over four equally likely options
ChoiceCrop(r) == Crops[((4 * r) \div RngMod) + 1]

\* np.random.choice(['Yes','No'], p=[0.3,0.7])
ChoicePest(r) == IF 10 * r < 3 * RngMod THEN "Yes" ELSE "No"

\* variant: the draw is scaled from the upper end
UniformAbove(lo, hi, r, tu) == Round(hi * RngMod + (hi - lo) * r, RngMod, tu)

\* np.random.uniform(lo, hi).round(d), lo and hi in units of 10^-d
Uniform(lo, hi, r, tu) == Round(lo * RngMod + (hi - lo) * r, RngMod, tu)

\* ------------------------------------------------------------- generator
Columns == <<"Farm_ID", "Crop_Type", "Soil_Moisture_%", "Rainfall_mm",
             "Avg_Temperature_C", "Fertilizer_Used_kg_per_acre",
             "Pest_Infestation", "Historical_Yield_ton_per_acre",
             "Predicted_Yield_ton_per_acre">>

ColumnSet == {Columns[k] : k \in 1..Len(Columns)}

\* variant: the ids start one too high
ArangeShifted(lo, hi) == [i \in 1..(hi - lo) |-> lo + i]

\* np.arange(lo, hi): lo, lo+1, ..., hi-1 (empty when hi <= lo)
Arange(lo, hi) == [i \in 1..(hi - lo) |-> lo + i - 1]

\* variant: a size of zero is refused as well
NegativeDimsOrZero(size) == size < 1

\* numpy refuses a negative size ("negative dimensions are not allowed")
NegativeDims(size) == size < 0

\* variant: the pest penalty is left out
YieldSumNoPest(h, sm, rain, temp, pest) ==
    h * 100 + (sm - 2500) * 2 + (rain - 1500) * 5 + (300 - Abs(temp - 250)) * 50

\* variant: the temperature term is only the deviation penalty
YieldSumNoOptimum(h, sm, rain, temp, pest) ==
    h * 100 + (sm - 2500) * 2 + (rain - 1500) * 5 - Abs(temp - 250) * 50
    - (IF pest = "Yes" THEN 5000 ELSE 0)

\* the yield formula before rounding, in units of 10^-4 ton per acre
YieldSum(h, sm, rain, temp, pest) ==
    h * 100
    + (sm - 2500) * 2
    + (rain - 1500) * 5
    + (300 - Abs(temp - 250)) * 50
    - (IF pest = "Yes" THEN 5000 ELSE 0)

\* the derived column of one row, in hundredths
Predicted_Yield_ton_per_acre(row, tu) ==
    Round(YieldSum(row["Historical_Yield_ton_per_acre"],
                   row["Soil_Moisture_%"],
                   row["Rainfall_mm"],
                   row["Avg_Temperature_C"],
                   row["Pest_Infestation"]), 100, tu)

\* the seven drawn columns and the id column; each column is drawn whole,
\* one after the other, from the generator in state s0
BaseColumns(nn, s0, tu) ==
    [c \in ColumnSet \ {"Predicted_Yield_ton_per_acre"} |->
        CASE c = "Farm_ID" -> Arange(1, nn + 1)
          [] c = "Crop_Type" ->
                [i \in 1..nn |-> ChoiceCrop(Stream(s0, i))]
          [] c = "Soil_Moisture_%" ->
                [i \in 1..nn |-> Uniform(1000, 4000, Stream(s0, nn + i), tu)]
          [] c = "Rainfall_mm" ->
                [i \in 1..nn |-> Uniform(500, 3000, Stream(s0, 2 * nn + i), tu)]
          [] c = "Avg_Temperature_C" ->
                [i \in 1..nn |-> Uniform(150, 350, Stream(s0, 3 * nn + i), tu)]
          [] c = "Fertilizer_Used_kg_per_acre" ->
                [i \in 1..nn |-> Uniform(500, 2500, Stream(s0, 4 * nn + i), tu)]
          [] c = "Pest_Infestation" ->
                [i \in 1..nn |-> ChoicePest(Stream(s0, 5 * nn + i))]
          [] c = "Historical_Yield_ton_per_acre" ->
                [i \in 1..nn |-> Uniform(150, 500, Stream(s0, 6 * nn + i), tu)]]

\* pd.DataFrame(dict of columns): one row per index of the id column
DataFrame(cols) ==
    [i \in 1..Len(cols["Farm_ID"]) |-> [c \in DOMAIN cols |-> cols[c][i]]]

\* df['Predicted_Yield_ton_per_acre'] = (...).round(2)
WithPredicted(df, tu) ==
    [i \in 1..Len(df) |->
        [c \in ColumnSet |->
            IF c = "Predicted_Yield_ton_per_acre"
            THEN Predicted_Yield_ton_per_acre(df[i], tu)
            ELSE df[i][c]]]

\* the generator from a seeded state: an error and no frame when numpy
\* rejects the size, else the frame; rng is the state the draws leave behind
GenerateFrom(nn, s0, tu) ==
    IF NegativeDims(nn)
    THEN [err |-> TRUE, df |-> <<>>, rng |-> s0]
    ELSE [err |-> FALSE,
          df |-> WithPredicted(DataFrame(BaseColumns(nn, s0, tu)), tu),
          rng |-> Stream(s0, 7 * nn)]

\* variant: the loader draws without reseeding
load_simulated_data_unseeded(cur, nn, s, tu) == GenerateFrom(nn, cur, tu)

\* index.py: reseeds the shared generator (whatever state cur it is in), then draws
load_simulated_data(cur, nn, s, tu) == GenerateFrom(nn, SeedRng(s), tu)

\* data.py: the module-level seed call, then the same draws
data_py(nn, s, tu) == GenerateFrom(nn, SeedRng(s), tu)

Result(g) == [err |-> g.err, df |-> g.df]

\* ------------------------------------------------------------------- CSV
Decimals(c) ==
    CASE c \in {"Soil_Moisture_%", "Historical_Yield_ton_per_acre",
                "Predicted_Yield_ton_per_acre"} -> 2
      [] c \in {"Rainfall_mm", "Avg_Temperature_C",
                "Fertilizer_Used_kg_per_acre"} -> 1
      [] OTHER -> 0

IsText(c) == c \in {"Crop_Type", "Pest_Infestation"}

Pow10(d) == IF d = 2 THEN 100 ELSE IF d = 1 THEN 10 ELSE 1

\* the shortest decimal text of v / 10^d: integer part and fraction digits,
\* trailing zeros dropped but one digit kept ("25.3", "3.0", "4.05")
FormatFloat(v, d) ==
    LET f == v % Pow10(d)
    IN  IF d = 2
        THEN IF f % 10 = 0 THEN <<v \div 100, <<f \div 10>>>>
                           ELSE <<v \div 100, <<f \div 10, f % 10>>>>
        ELSE <<v \div 10, <<f>>>>

\* the value of such a text, back in units of 10^-d
ParseFloat(t, d) ==
    LET ds == t[2]
    IN  t[1] * Pow10(d)
        + (IF Len(ds) >= 1 THEN ds[1] * Pow10(d - 1) ELSE 0)
        + (IF Len(ds) >= 2 /\ d >= 2 THEN ds[2] ELSE 0)

FormatCell(c, v) == IF IsText(c) \/ Decimals(c) = 0 THEN v ELSE FormatFloat(v, Decimals(c))

ParseCell(c, t) == IF IsText(c) \/ Decimals(c) = 0 THEN t ELSE ParseFloat(t, Decimals(c))

\* df.to_csv(index=False): a header line and one line of cells per row
to_csv(df) ==
    [header |-> Columns,
     lines |-> [i \in 1..Len(df) |->
                  [k \in 1..Len(Columns) |-> FormatCell(Columns[k], df[i][Columns[k]])]]]

\* pd.read_csv: one row per line, keyed by the header
read_csv(f) ==
    [i \in 1..Len(f.lines) |->
        [c \in {f.header[k] : k \in 1..Len(f.header)} |->
            ParseCell(c, f.lines[i][CHOOSE k \in 1..Len(f.header) : f.header[k] = c])]]

\* ------------------------------------------------------------ page code
PestOptions == {"All", "Yes", "No"}
DateChoices == {1, 2}

\* column names whose lower-case form contains 'date'
ContainsDate(c) == c \in {"Date", "date"}

\* pd.to_datetime of one cell
ToDatetime(v) == <<"datetime", v>>

\* index.py "Convert dates": every column named like a date is replaced
ConvertDates(df) ==
    [i \in 1..Len(df) |->
        [c \in DOMAIN df[i] |->
            IF ContainsDate(c) THEN ToDatetime(df[i][c]) ELSE df[i][c]]]

\* data["Crop_Type"].unique()
UniqueCrops(df) == {df[i]["Crop_Type"] : i \in 1..Len(df)}

IsinCrops(row, crops) == row["Crop_Type"] \in crops

PestEquals(row, pest) == row["Pest_Infestation"] = pest

InDateRange(row, start, end) == row["Date"] >= start /\ row["Date"] <= end

\* variant: the filters overwrite `data`
FilterDataInPlace(d, cols, crops, pest, start, end) ==
    LET byCrop == SelectSeq(d, LAMBDA row : IsinCrops(row, crops))
        byPest == IF pest # "All"
                  THEN SelectSeq(byCrop, LAMBDA row : PestEquals(row, pest))
                  ELSE byCrop
    IN  [data |-> byPest, filtered_data |-> byPest]

\* app.py "Filter Data" and "Add Date Range Filter": the values of the two
\* variables `data` and `filtered_data` once the filters have run
FilterData(d, cols, crops, pest, start, end) ==
    LET byCrop == SelectSeq(d, LAMBDA row : IsinCrops(row, crops))
        byPest == IF pest # "All"
                  THEN SelectSeq(byCrop, LAMBDA row : PestEquals(row, pest))
                  ELSE byCrop
        byDate == IF "Date" \in cols
                  THEN SelectSeq(byPest, LAMBDA row : InDateRange(row, start, end))
                  ELSE byPest
    IN  [data |-> d, filtered_data |-> byDate]

\* ------------------------------------------------------------------ state
TieRules == [{0, 1} -> BOOLEAN]

SliderMin == 2010

InitGen ==
    /\ n \in (0 - 1)..MaxN
    /\ seed \in Seeds
    /\ tieUp \in TieRules
    /\ rng \in 0..(RngMod - 1)
    /\ csvFile = None
    /\ simCache = None
    /\ firstGen = None
    /\ lastGen = None
    /\ preLast = None
    /\ variedEntry = FALSE

InitPage ==
    /\ script = None
    /\ status = "idle"
    /\ loaded = None
    /\ data = None
    /\ filtered_data = None
    /\ selected_crops = {}
    /\ selected_pest = "All"

InitNass ==
    /\ secrets = None
    /\ nassCache = None
    /\ key = ""
    /\ year_range = <<SliderMin, SliderMin>>
    /\ yr = SliderMin
    /\ rows = <<>>
    /\ resp = <<>>
    /\ httpLog = <<>>
    /\ errorShown = FALSE

InitRec ==
    /\ rec = None
    /\ pred = None

Init == InitGen /\ InitPage /\ InitNass /\ InitRec

\* history of the runs of the generator body
Record(g) ==
    /\ lastGen' = Some(Result(g))
    /\ firstGen' = IF firstGen = None THEN Some(Result(g)) ELSE firstGen

\* python data.py: a fresh process seeds its own generator first thing, draws,
\* derives the yield and writes the CSV; a raise writes nothing
RunDataPy ==
    LET g == data_py(n, seed, tieUp)
    IN  /\ Record(g)
        /\ csvFile' = IF g.err THEN csvFile ELSE Some(to_csv(g.df))
        /\ UNCHANGED <<n, seed, tieUp, rng, simCache, preLast, variedEntry>>
        /\ UNCHANGED <<pageVars, nassVars, recVars>>

\* index.py with source "Simulated", nothing cached: the loader body runs on
\* the server's shared generator, its frame is cached, dates are converted
IndexSimulatedMiss ==
    /\ simCache = None
    /\ LET g == load_simulated_data(rng, n, seed, tieUp)
       IN  /\ Record(g)
           /\ preLast' = Some(rng)
           /\ variedEntry' = (variedEntry \/ (preLast # None /\ preLast # Some(rng)))
           /\ rng' = g.rng
           /\ simCache' = IF g.err THEN None ELSE Some(g.df)
           /\ script' = "index"
           /\ status' = IF g.err THEN "exception" ELSE "done"
           /\ loaded' = IF g.err THEN None ELSE Some(g.df)
           /\ data' = IF g.err THEN None ELSE Some(ConvertDates(g.df))
    /\ filtered_data' = None
    /\ selected_crops' = {}
    /\ selected_pest' = "All"
    /\ UNCHANGED <<n, seed, tieUp, csvFile>>
    /\ UNCHANGED <<nassVars, recVars>>

\* index.py with source "Simulated", cached: the body does not run
IndexSimulatedHit ==
    /\ simCache # None
    /\ script' = "index"
    /\ status' = "done"
    /\ loaded' = simCache
    /\ data' = Some(ConvertDates(Get(simCache)))
    /\ filtered_data' = None
    /\ selected_crops' = {}
    /\ selected_pest' = "All"
    /\ UNCHANGED <<genVars, nassVars, recVars>>

\* the cache entry is dropped (cache cleared from the app menu)
ClearCache ==
    /\ simCache # None
    /\ simCache' = None
    /\ UNCHANGED <<n, seed, tieUp, rng, csvFile, firstGen, lastGen, preLast, variedEntry>>
    /\ UNCHANGED <<pageVars, nassVars, recVars>>

\* app.py with the CSV present: load, take the widget values, filter
AppPage ==
    /\ csvFile # None
    /\ LET d == read_csv(Get(csvFile))
           cols == {Get(csvFile).header[k] : k \in 1..Len(Get(csvFile).header)}
           dates == IF "Date" \in cols THEN DateChoices \X DateChoices ELSE {<<1, 1>>}
       IN  \E crops \in SUBSET UniqueCrops(d), pest \in PestOptions, range \in dates :
                LET f == FilterData(d, cols, crops, pest, range[1], range[2])
                IN  /\ loaded' = Some(d)
                    /\ data' = Some(f.data)
                    /\ filtered_data' = Some(f.filtered_data)
                    /\ selected_crops' = crops
                    /\ selected_pest' = pest
    /\ script' = "app"
    /\ status' = "done"
    /\ UNCHANGED <<genVars, nassVars, recVars>>

\* app.py before data.py wrote the CSV: read_csv raises
AppPageNoFile ==
    /\ csvFile = None
    /\ script' = "app"
    /\ status' = "exception"
    /\ loaded' = None
    /\ data' = None
    /\ filtered_data' = None
    /\ selected_crops' = {}
    /\ selected_pest' = "All"
    /\ UNCHANGED <<genVars, nassVars, recVars>>

Next ==
    \/ RunDataPy
    \/ IndexSimulatedMiss
    \/ IndexSimulatedHit
    \/ ClearCache
    \/ AppPage
    \/ AppPageNoFile

Spec == Init /\ [][Next]_vars

\* ------------------------------------------------------ USDA NASS loader
Digits == <<"0", "1", "2", "3", "4", "5", "6", "7", "8", "9">>

DigitChar(d) == Digits[d + 1]

DigitVal(ch) == CHOOSE d \in 0..9 : Digits[d + 1] = ch

IsDigit(ch) == \E d \in 0..9 : Digits[d + 1] = ch

RECURSIVE ToText(_)
\* the decimal text of a natural number, one character per element
ToText(k) == IF k < 10 THEN <<DigitChar(k)>>
             ELSE Append(ToText(k \div 10), DigitChar(k % 10))

RECURSIVE ParseInt(_)
\* the number a text of digits denotes
ParseInt(t) == IF Len(t) = 0 THEN 0
               ELSE 10 * ParseInt(SubSeq(t, 1, Len(t) - 1)) + DigitVal(t[Len(t)])

IsNumber(t) == Len(t) >= 1 /\ \A i \in 1..Len(t) : IsDigit(t[i])

\* .str.replace(",", "")
StripCommas(t) == SelectSeq(t, LAMBDA ch : ch # ",")

\* pd.to_numeric(..., errors='coerce'): the number, or NaN (absent)
ToNumeric(t) == IF IsNumber(t) THEN Some(ParseInt(t)) ELSE None

\* .astype(int) raises on any cell that is no integer text
AstypeIntRaises(frame) == \E i \in 1..Len(frame) : ~IsNumber(frame[i].year)

\* the two conversions after the loop; a frame without rows has no columns
PostProcess(frame) ==
    IF AstypeIntRaises(frame)
    THEN [err |-> TRUE, df |-> <<>>]
    ELSE [err |-> FALSE,
          df |-> [i \in 1..Len(frame) |->
                    [year |-> ParseInt(frame[i].year),
                     Value |-> ToNumeric(StripCommas(frame[i].Value))]]]

\* bodies a successful request for year y may carry in "data"
Bodies(y) ==
    { <<>>,
      << [year |-> ToText(y), Value |-> <<"1", ",", "2">>],
         [year |-> ToText(y), Value |-> <<"D">>] >>,
      << [year |-> <<"x">>, Value |-> <<"7">>] >> }

\* variant: the key check is skipped
KeyMissingNever(k) == FALSE

\* `not key`
KeyMissing(k) == k = ""

\* st.secrets.get("NASS_API_KEY", "")
SecretsGet(sec) == IF sec = None THEN "" ELSE Get(sec)

SliderMax == SliderMin + MaxSpan

YearRanges == {r \in (SliderMin..SliderMax) \X (SliderMin..SliderMax) : r[1] <= r[2]}

InitNassSpec ==
    /\ n = 0 /\ seed = 42 /\ rng = 0
    /\ tieUp = [p \in {0, 1} |-> p = 1]
    /\ csvFile = None /\ simCache = None
    /\ firstGen = None /\ lastGen = None
    /\ preLast = None /\ variedEntry = FALSE
    /\ InitPage
    /\ InitRec
    /\ secrets \in {None, Some(""), Some("k")}
    /\ nassCache = None
    /\ key = ""
    /\ year_range = <<SliderMin, SliderMin>>
    /\ yr = SliderMin
    /\ rows = <<>>
    /\ resp = <<>>
    /\ httpLog = <<>>
    /\ errorShown = FALSE

\* st.cache_data: a frame is held for exactly these arguments
Cached(k, range) == nassCache # None /\ Get(nassCache).args = <<k, range>>

\* what every page run with source "USDA NASS" does first: widgets, secret
PageHead(range) ==
    /\ script' = "nass"
    /\ year_range' = range
    /\ key' = SecretsGet(secrets)
    /\ httpLog' = <<>>
    /\ resp' = <<>>
    /\ rows' = <<>>
    /\ yr' = range[1]
    /\ filtered_data' = None
    /\ selected_crops' = {}
    /\ selected_pest' = "All"
    /\ UNCHANGED <<genVars, recVars, secrets>>

\* no key: st.error, st.stop
NassPageNoKey ==
    \E range \in YearRanges :
        /\ KeyMissing(SecretsGet(secrets))
        /\ PageHead(range)
        /\ errorShown' = TRUE
        /\ status' = "stopped"
        /\ loaded' = None
        /\ data' = None
        /\ UNCHANGED nassCache

\* a key and a cached frame for these arguments: the loader body does not run
NassPageHit ==
    \E range \in YearRanges :
        /\ ~KeyMissing(SecretsGet(secrets))
        /\ Cached(SecretsGet(secrets), range)
        /\ PageHead(range)
        /\ errorShown' = FALSE
        /\ status' = "cache_hit"
        /\ loaded' = Some(Get(nassCache).df)
        /\ data' = Some(ConvertDates(Get(nassCache).df))
        /\ UNCHANGED nassCache

\* a key and nothing cached for these arguments: load_nass_data starts
NassPageMiss ==
    \E range \in YearRanges :
        /\ ~KeyMissing(SecretsGet(secrets))
        /\ ~Cached(SecretsGet(secrets), range)
        /\ PageHead(range)
        /\ errorShown' = FALSE
        /\ status' = "fetching"
        /\ loaded' = None
        /\ data' = None
        /\ UNCHANGED nassCache

FetchFrame ==
    UNCHANGED <<genVars, recVars, secrets, nassCache, key, year_range, errorShown,
                script, status, loaded, data, filtered_data, selected_crops,
                selected_pest>>

\* one iteration: the GET succeeds and its rows are appended
FetchOk ==
    /\ status = "fetching"
    /\ yr <= year_range[2]
    /\ \E body \in Bodies(yr) :
        /\ rows' = rows \o body
        /\ resp' = Append(resp, [year |-> yr, ok |-> TRUE, body |-> body])
    /\ httpLog' = Append(httpLog, [year |-> yr, key |-> key])
    /\ yr' = yr + 1
    /\ FetchFrame

\* variant of the failure branch: the loop is left
SkipYearBreak(y, last) == last + 1

\* `continue`: the loop goes on with the next year
SkipYear(y, last) == y + 1

\* one iteration: requests.get raises (connection error, timeout)
FetchNetworkError ==
    /\ status = "fetching"
    /\ yr <= year_range[2]
    /\ rows' = rows
    /\ resp' = Append(resp, [year |-> yr, ok |-> FALSE, body |-> <<>>])
    /\ httpLog' = Append(httpLog, [year |-> yr, key |-> key])
    /\ yr' = SkipYear(yr, year_range[2])
    /\ FetchFrame

\* one iteration: a non-2xx status, raise_for_status raises
FetchHttpError ==
    /\ status = "fetching"
    /\ yr <= year_range[2]
    /\ rows' = rows
    /\ resp' = Append(resp, [year |-> yr, ok |-> FALSE, body |-> <<"status">>])
    /\ httpLog' = Append(httpLog, [year |-> yr, key |-> key])
    /\ yr' = SkipYear(yr, year_range[2])
    /\ FetchFrame

\* the loop is over: the frame is built and converted; the result is cached
\* and the page goes on, or the conversion raises and nothing is cached
FetchFinish ==
    /\ status = "fetching"
    /\ yr > year_range[2]
    /\ LET r == PostProcess(rows)
       IN  /\ status' = IF r.err THEN "exception" ELSE "done"
           /\ nassCache' = IF r.err THEN nassCache
                           ELSE Some([args |-> <<key, year_range>>, df |-> r.df])
           /\ loaded' = IF r.err THEN None ELSE Some(r.df)
           /\ data' = IF r.err THEN None ELSE Some(ConvertDates(r.df))
    /\ UNCHANGED <<genVars, recVars, secrets, key, year_range, yr, rows, resp,
                   httpLog, errorShown, script, filtered_data, selected_crops,
                   selected_pest>>

NextNass ==
    \/ NassPageNoKey
    \/ NassPageHit
    \/ NassPageMiss
    \/ FetchOk
    \/ FetchNetworkError
    \/ FetchHttpError
    \/ FetchFinish

SpecNass == InitNassSpec /\ [][NextNass]_vars

\* ------------------------------------------------- formula on one record
ReferenceH == {150, 300, 500}
ReferenceSM == {1000, 2500, 3500, 4000}
ReferenceRain == {500, 1500, 3000}
ReferenceTemp == {150, 250, 251, 350}

MakeRow(h, sm, rain, temp, pest) ==
    [c \in {"Historical_Yield_ton_per_acre", "Soil_Moisture_%", "Rainfall_mm",
            "Avg_Temperature_C", "Pest_Infestation"} |->
        CASE c = "Historical_Yield_ton_per_acre" -> h
          [] c = "Soil_Moisture_%" -> sm
          [] c = "Rainfall_mm" -> rain
          [] c = "Avg_Temperature_C" -> temp
          [] c = "Pest_Infestation" -> pest]

InitFormula ==
    /\ n = 0 /\ seed = 42 /\ rng = 0
    /\ tieUp \in TieRules
    /\ csvFile = None /\ simCache = None
    /\ firstGen = None /\ lastGen = None
    /\ preLast = None /\ variedEntry = FALSE
    /\ InitPage
    /\ InitNass
    /\ \E h \in ReferenceH, sm \in ReferenceSM, rain \in ReferenceRain,
          temp \in ReferenceTemp, pest \in {"Yes", "No"} :
            rec = Some(MakeRow(h, sm, rain, temp, pest))
    /\ pred = None

\* the derived column is computed for the record
ApplyFormula ==
    /\ rec # None
    /\ pred = None
    /\ pred' = Some(Predicted_Yield_ton_per_acre(Get(rec), tieUp))
    /\ UNCHANGED <<genVars, pageVars, nassVars, rec>>

NextFormula == ApplyFormula

SpecFormula == InitFormula /\ [][NextFormula]_vars

\* ---------------------------------------------------------------- claims
\* every frame the generator has returned
Generated ==
    (IF firstGen = None THEN {} ELSE {Get(firstGen).df})
    \cup (IF lastGen = None THEN {} ELSE {Get(lastGen).df})

AllRows == UNION {{df[i] : i \in 1..Len(df)} : df \in Generated}

\* the claimed sum, in units of 10^-4, from the fields of one row
ClaimedSum(row) ==
    100 * row["Historical_Yield_ton_per_acre"]
    + 2 * (row["Soil_Moisture_%"] - 2500)
    + 5 * (row["Rainfall_mm"] - 1500)
    + 50 * (300 - (IF row["Avg_Temperature_C"] >= 250
                   THEN row["Avg_Temperature_C"] - 250
                   ELSE 250 - row["Avg_Temperature_C"]))
    - (IF row["Pest_Infestation"] = "Yes" THEN 5000 ELSE 0)

SameInputs(a, b) ==
    \A c \in {"Historical_Yield_ton_per_acre", "Soil_Moisture_%", "Rainfall_mm",
              "Avg_Temperature_C", "Pest_Infestation"} : a[c] = b[c]

\* C1: in every generated record the predicted yield is a 2-decimal value
\* nearest to HistoricalYield + (SoilMoisture-25)*0.02 + (Rainfall-150)*0.005
\* + (30-|AvgTemperature-25|)*0.05 - (0.5 if pest), and depends on nothing but
\* that record's own fields: records with equal inputs have equal predictions.
C1_PredictedYieldFormula ==
    /\ \A row \in AllRows :
         /\ 100 * row["Predicted_Yield_ton_per_acre"] - ClaimedSum(row) <= 50
         /\ ClaimedSum(row) - 100 * row["Predicted_Yield_ton_per_acre"] <= 50
    /\ \A a \in AllRows, b \in AllRows :
         SameInputs(a, b) =>
            a["Predicted_Yield_ton_per_acre"] = b["Predicted_Yield_ton_per_acre"]

C1_Witness ==
    \E row \in AllRows :
        /\ row["Pest_Infestation"] = "Yes"
        /\ row["Avg_Temperature_C"] # 250
        /\ row["Soil_Moisture_%"] # 2500
        /\ row["Rainfall_mm"] # 1500

\* C2 as stated: at the reference point the prediction equals the historical
\* yield (3.00 gives 3.00), and with moisture 35 and pest Yes 3.00 gives 2.70.
C2_Original ==
    (pred # None
     /\ Get(rec)["Rainfall_mm"] = 1500 /\ Get(rec)["Avg_Temperature_C"] = 250) =>
        /\ (Get(rec)["Soil_Moisture_%"] = 2500 /\ Get(rec)["Pest_Infestation"] = "No")
              => Get(pred) = Get(rec)["Historical_Yield_ton_per_acre"]
        /\ (Get(rec)["Soil_Moisture_%"] = 3500 /\ Get(rec)["Pest_Infestation"] = "Yes"
            /\ Get(rec)["Historical_Yield_ton_per_acre"] = 300)
              => Get(pred) = 270

\* C2 amended: at the reference point the moisture, rainfall and pest terms
\* are zero and the temperature term is 30*0.05 = 1.50, so the prediction is
\* the historical yield plus 1.50 (3.00 gives 4.50); with moisture 35 and pest
\* Yes, 3.00 gives 3.00 + 0.20 + 1.50 - 0.50 = 4.20.
C2_ReferencePoint ==
    (pred # None
     /\ Get(rec)["Rainfall_mm"] = 1500 /\ Get(rec)["Avg_Temperature_C"] = 250) =>
        /\ (Get(rec)["Soil_Moisture_%"] = 2500 /\ Get(rec)["Pest_Infestation"] = "No")
              => Get(pred) = Get(rec)["Historical_Yield_ton_per_acre"] + 150
        /\ (Get(rec)["Soil_Moisture_%"] = 3500 /\ Get(rec)["Pest_Infestation"] = "Yes"
            /\ Get(rec)["Historical_Yield_ton_per_acre"] = 300)
              => Get(pred) = 420

C2_Witness ==
    /\ pred = Some(450)
    /\ rec = Some(MakeRow(300, 2500, 1500, 250, "No"))

\* C3: for n >= 1 the generator returns exactly n records and the FarmID of
\* the i-th record is i (1..n ascending, no gaps, no repeats).
C3_FarmIds ==
    \A df \in Generated :
        n >= 1 => /\ Len(df) = n
                  /\ \A i \in 1..Len(df) : df[i]["Farm_ID"] = i

C3_Witness ==
    \E df \in Generated : n >= 2 /\ Len(df) = n /\ df[n]["Farm_ID"] = n

\* C5 as stated: a run of the generator with n < 1 ends in an error and
\* yields no records.
C5_Original ==
    (lastGen # None /\ n < 1) => (Get(lastGen).err /\ Get(lastGen).df = <<>>)

\* C5 amended: with n < 0 the generator ends in an error, returns no frame and
\* nothing is written or cached; with n = 0 it ends without error and returns
\* an empty sequence; no partial sequence is ever returned.
C5_InvalidCount ==
    lastGen # None =>
        /\ n < 0 => /\ Get(lastGen).err
                    /\ Get(lastGen).df = <<>>
                    /\ csvFile = None
                    /\ simCache = None
        /\ n = 0 => /\ ~Get(lastGen).err
                    /\ Get(lastGen).df = <<>>
        /\ ~Get(lastGen).err => Len(Get(lastGen).df) = n

C5_Witness ==
    /\ n = 0
    /\ lastGen # None
    /\ ~Get(lastGen).err
    /\ simCache = Some(<<>>)

\* C6: every run of the generator with the same (n, seed) returns the same
\* result, field for field, whatever state the shared random generator was in
\* when the run began.
C6_Deterministic ==
    (firstGen # None /\ lastGen # None) => lastGen = firstGen

C6_Witness ==
    /\ variedEntry
    /\ lastGen = firstGen
    /\ lastGen # None
    /\ Len(Get(lastGen).df) >= 1

\* C9: a page never changes the dataset it loaded, and app.py's filtered
\* dataset is exactly the loaded rows, in order, whose CropType is selected and
\* whose PestInfestation equals the pest selection unless that is All.
C9_LoadedNeverMutated ==
    status = "done" =>
        /\ data = loaded
        /\ script = "app" =>
             filtered_data =
                Some(SelectSeq(Get(loaded), LAMBDA row :
                        /\ row["Crop_Type"] \in selected_crops
                        /\ (selected_pest = "All"
                            \/ row["Pest_Infestation"] = selected_pest)))

C9_Witness ==
    /\ script = "app"
    /\ status = "done"
    /\ selected_pest # "All"
    /\ Len(Get(filtered_data)) >= 1
    /\ Len(Get(filtered_data)) < Len(Get(loaded))
    /\ data = loaded

\* C10: every generated record has SoilMoisture in [10,40], Rainfall in
\* [50,300], AvgTemperature in [15,35], FertilizerUsed in [50,250],
\* HistoricalYield in [1.5,5.0], CropType one of the four crops and
\* PestInfestation Yes or No.
C10_FieldDomains ==
    \A row \in AllRows :
        /\ row["Soil_Moisture_%"] >= 1000 /\ row["Soil_Moisture_%"] <= 4000
        /\ row["Rainfall_mm"] >= 500 /\ row["Rainfall_mm"] <= 3000
        /\ row["Avg_Temperature_C"] >= 150 /\ row["Avg_Temperature_C"] <= 350
        /\ row["Fertilizer_Used_kg_per_acre"] >= 500
        /\ row["Fertilizer_Used_kg_per_acre"] <= 2500
        /\ row["Historical_Yield_ton_per_acre"] >= 150
        /\ row["Historical_Yield_ton_per_acre"] <= 500
        /\ row["Crop_Type"] \in {"Wheat", "Maize", "Rice", "Soybean"}
        /\ row["Pest_Infestation"] \in {"Yes", "No"}

C10_Witness ==
    \E row \in AllRows :
        /\ row["Rainfall_mm"] = 500
        /\ row["Historical_Yield_ton_per_acre"] = 150

RECURSIVE OkRows(_)
\* the rows of the successful requests of a log, in the order of the log
OkRows(log) ==
    IF Len(log) = 0 THEN <<>>
    ELSE OkRows(SubSeq(log, 1, Len(log) - 1))
         \o (IF log[Len(log)].ok THEN log[Len(log)].body ELSE <<>>)

FetchRan == script = "nass" /\ status \in {"fetching", "done", "exception"}

\* C4: the fetch requests every year of the range once, in ascending order,
\* whatever the outcome of the earlier requests; a failed request adds no rows
\* and raises nothing; the frame returned holds exactly the rows of the
\* successful requests, in year order.
C4_SkipFailedYears ==
    FetchRan =>
        /\ \A i \in 1..Len(httpLog) : httpLog[i].year = year_range[1] + i - 1
        /\ \A i \in 1..Len(resp) : resp[i].year = year_range[1] + i - 1
        /\ Len(resp) = Len(httpLog)
        /\ yr = year_range[1] + Len(httpLog)
        /\ rows = OkRows(resp)
        /\ status # "fetching" => Len(httpLog) = year_range[2] - year_range[1] + 1
        /\ status = "done" =>
             /\ Len(Get(loaded)) = Len(OkRows(resp))
             /\ \A i \in 1..Len(Get(loaded)) :
                  Get(loaded)[i].year = ParseInt(OkRows(resp)[i].year)
        /\ status = "exception" =>
             \E i \in 1..Len(resp) : resp[i].ok /\ resp[i].body # <<>>

C4_Witness ==
    /\ script = "nass"
    /\ status = "done"
    /\ Len(Get(loaded)) >= 1
    /\ \E i \in 1..Len(resp), j \in 1..Len(resp) :
         i < j /\ ~resp[i].ok /\ resp[j].ok /\ resp[j].body # <<>>

\* C7: with the NASS source selected and the credential missing or empty,
\* the page shows the error and stops, and no request is issued in that run;
\* the fetch only ever runs, and only ever requests, with a non-empty key.
C7_NoRequestWithoutKey ==
    script = "nass" =>
        /\ (secrets = None \/ secrets = Some("")) =>
              /\ status = "stopped"
              /\ errorShown
              /\ httpLog = <<>>
              /\ data = None
        /\ status = "fetching" => key # ""
        /\ \A i \in 1..Len(httpLog) : httpLog[i].key # ""

C7_Witness ==
    /\ script = "nass"
    /\ secrets = Some("")
    /\ status = "stopped"
    /\ errorShown
    /\ httpLog = <<>>

\* C8: a malformed numeric field of a fetched row (a Value that is no number
\* once the commas are gone, a year that is no integer) becomes a missing
\* marker and the fetch does not raise.
C8_MalformedCoerced ==
    script = "nass" =>
        /\ status # "exception"
        /\ status = "done" =>
             \A i \in 1..Len(Get(loaded)) :
                ~IsNumber(StripCommas(rows[i].Value)) => Get(loaded)[i].Value = None

====
